---- MODULE Spec2Model ----
(***************************************************************************)
(* GARDEN-AI: the interaction-to-simulation engine of src/App.tsx.         *)
(*                                                                         *)
(* One animation tick (predictWebcam) is the sequence                      *)
(*   processInteraction -> updateSeeds -> updateParticles -> updatePlants  *)
(* and runs to completion: while pc # "idle" nothing but the next step of  *)
(* the running tick is enabled.  The steps are separate actions only so    *)
(* that the state each function returns is a state of the model.           *)
(* pc = "invoke": startCamera is calling predictWebcam, the first tick.    *)
(*                                                                         *)
(* Spec is the garden from the moment the loop starts; SpecLife is the     *)
(* life cycle around it: initVision, startCamera, the loop, the cleanup.   *)
(* SpecGrown, SpecFading, SpecHeld and SpecFalling start from gardens that *)
(* have been running for a while; SpecFingers shows hands finger by finger.*)
(*                                                                         *)
(* Units (all numbers are integers):                                       *)
(*   normalized landmark coordinate   1/1000        (0.5  -> 500)          *)
(*   pixel coordinate, velocity       1/1000 pixel  (640  -> 640000)       *)
(*   time                             millisecond                          *)
(*   mouthOpenness, pinchProximity    1/1000        (0.2  -> 200)          *)
(*   growthProgress                   1/10^7        (1    -> 10000000)     *)
(*   particle life                    1/100         (1.0  -> 100)          *)
(*   Math.random()                    1/1000        (0.5  -> 500)          *)
(***************************************************************************)
EXTENDS Integers, Sequences, FiniteSets, TLC

VARIABLES
    config,          \* config / configRef.current: [selectedSpecies, growthHeightFactor]
    seeds,           \* seedsRef.current
    plants,          \* plantsRef.current
    particles,       \* particlesRef.current
    interaction,     \* interactionRef.current
    pinchCooldown,   \* pinchCooldownRef.current
    lastVideoTime,   \* lastVideoTimeRef.current: -1, or 0 once a timestamp is recorded
    pc,              \* position inside predictWebcam
    deltaTime,       \* local of the running tick (0 between ticks)
    video,           \* what this tick read of the video element: currentTime, readyState
    detection,       \* outcome of "1. Vision Processing" in this tick
    landmarkFrame,   \* faceResult/handResult handed to processInteraction in this tick
    trigger,         \* trigger event of this tick's processInteraction
    nextId,          \* ids handed out so far (Math.random().toString(36) is fresh)
    ticks,           \* number of ticks started
    sinceSpawn,      \* history: deltaTime accumulated since the last spawning tick
    hold,            \* history: the current continuous open-palm hold
    release,         \* history: the drain of clearTimer since the palm was last seen
    sprouted,        \* history: ids of the plants this tick's seed step has created
    active,          \* `active` of useEffect[initVision]
    initPc,          \* the await initVision is suspended at, or "returned"
    faceLandmarker,  \* faceLandmarkerRef.current is set
    handLandmarker,  \* handLandmarkerRef.current is set
    cameraPc,        \* startCamera: "idle", "acquiring", "waiting" (onloadeddata set), "returned"
    stream,          \* the MediaStream of getUserMedia: "none", "live", "stopped"
    srcObject,       \* video.srcObject is the stream
    videoRef,        \* videoRef.current and canvasRef.current are attached
    requestRef,      \* requestRef.current: "none", "pending" (a scheduled callback), "stale"
    rafPending,      \* animation-frame callbacks scheduled and not yet run or cancelled
    cleanedUp        \* history: the cleanup of useEffect[initVision] has run

lifeVars == <<active, initPc, faceLandmarker, handLandmarker, cameraPc, stream,
              srcObject, videoRef, cleanedUp>>
loopVars == <<requestRef, rafPending>>

vars == <<config, seeds, plants, particles, interaction, pinchCooldown,
          lastVideoTime, pc, deltaTime, video, detection, landmarkFrame,
          trigger, nextId, ticks, sinceSpawn, hold, release, sprouted,
          active, initPc, faceLandmarker, handLandmarker, cameraPc, stream,
          srcObject, videoRef, requestRef, rafPending, cleanedUp>>

(***************************************************************************)
(* Bounds of the model                                                     *)
(***************************************************************************)
MaxTicks == 2

(***************************************************************************)
(* Program constants                                                       *)
(***************************************************************************)
CanvasWidth == 1280
CanvasHeight == 720
PinchThreshold == 50
PinchFar == 150
PinchCooldownMs == 500
ClearHoldMs == 5000
GroundMargin == 20
SeedFallSpeed == 5000
SeedGravity == 500
MouthThreshold == 50
GrowthSpeed == 75
ParticleCount == 20
StemParticleCount == 10
ParticleLife == 100
ParticleFade == 2
MaxHeightBase == 200000
MaxHeightSpread == 150
PlantSeedSpread == 100

\* fixed-point scales
Milli == 1000
ProgressOne == 10000000
NaN == -1

Min(a, b) == IF a < b THEN a ELSE b
Max(a, b) == IF a > b THEN a ELSE b
Abs(a) == IF a < 0 THEN -a ELSE a

\* Math.hypot on the landmark grid; the catalogue below keeps it exact
Hypot(dx, dy) ==
    CHOOSE r \in Max(Abs(dx), Abs(dy))..(Abs(dx) + Abs(dy)) : r * r = dx * dx + dy * dy
Hypot2(dx, dy) == dx * dx + dy * dy

(***************************************************************************)
(* types.ts                                                                *)
(***************************************************************************)
FlowerSpecies == <<"Rose", "Dandelion", "WildChrysanthemum", "Tulip", "Sunflower">>
SpeciesSet == {FlowerSpecies[i] : i \in 1..Len(FlowerSpecies)}
SpeciesSelection == SpeciesSet \cup {"Random"}

getSpeciesColor(species) ==
    CASE species = "Rose" -> "#e11d48"
      [] species = "Tulip" -> "#a855f7"
      [] species = "WildChrysanthemum" -> "#facc15"
      [] species = "Sunflower" -> "#f59e0b"
      [] species = "Dandelion" -> "#cbd5e1"
      [] OTHER -> "#eab308"

StemColor == "#22c55e"

(***************************************************************************)
(* Landmark frames: the inputs of a tick                                   *)
(***************************************************************************)
LM(x, y) == [x |-> x, y |-> y]

HandIdx == {0, 2, 4, 5, 8, 9, 12, 13, 16, 17, 20}

\* A hand with its index tip at `tip`, its thumb tip at tip + thumbOff and the
\* wrist below; the middle finger is curled towards the wrist when `curled`.
MkHand(tip, thumbOff, curled) ==
    LET w == LM(tip.x + 20, tip.y + 200)
    IN [i \in HandIdx |->
          CASE i = 0  -> w
            [] i = 2  -> LM(w.x + 20, w.y - 80)
            [] i = 4  -> LM(tip.x + thumbOff.x, tip.y + thumbOff.y)
            [] i = 5  -> LM(w.x - 10, w.y - 140)
            [] i = 8  -> tip
            [] i = 9  -> LM(w.x, w.y - 140)
            [] i = 12 -> IF curled THEN LM(w.x, w.y - 100) ELSE LM(w.x, w.y - 300)
            [] i = 13 -> LM(w.x + 15, w.y - 130)
            [] i = 16 -> LM(w.x + 20, w.y - 280)
            [] i = 17 -> LM(w.x + 30, w.y - 110)
            [] i = 20 -> LM(w.x + 50, w.y - 220)]

OpenPalmHand == MkHand(LM(500, 400), LM(-80, 150), FALSE)   \* five fingers out
PinchMidHand == MkHand(LM(500, 500), LM(30, 0), TRUE)       \* pinchDist 0.03 at (0.5,0.5)
PinchLowHand == MkHand(LM(250, 960), LM(0, -40), TRUE)      \* pinchDist 0.04 near the ground
PalmPinchHand == MkHand(LM(750, 500), LM(30, 0), FALSE)     \* open palm, tips touching
NearHand == MkHand(LM(500, 500), LM(100, 0), TRUE)          \* pinchDist 0.10
PinchGroundHand == MkHand(LM(250, 980), LM(0, -40), TRUE)   \* pinchDist 0.04 below the landing line

\* A hand seen from the wrist, thumb and index tip 0.15 or more apart (at
\* distances Hypot keeps exact): the fingers whose
\* tip index is in `bent` are folded (tip nearer to the wrist than the joint),
\* those in `level` have the tip exactly as far from the wrist as the joint.
FingersHand(bent, level) ==
    LET w == LM(520, 600)
        Tip(i, out, folded, same) ==
            IF i \in level THEN LM(w.x + same.x, w.y + same.y)
            ELSE IF i \in bent THEN LM(w.x + folded.x, w.y + folded.y)
            ELSE LM(w.x + out.x, w.y + out.y)
    IN [i \in HandIdx |->
          CASE i = 0  -> w
            [] i = 2  -> LM(w.x + 20, w.y - 80)
            [] i = 4  -> Tip(4, LM(-20, 150), LM(60, 35), LM(-20, 80))
            [] i = 5  -> LM(w.x - 10, w.y - 140)
            [] i = 8  -> Tip(8, LM(-20, -280), LM(-20, -115), LM(-140, -10))
            [] i = 9  -> LM(w.x, w.y - 140)
            [] i = 12 -> Tip(12, LM(0, -300), LM(0, -100), LM(140, 0))
            [] i = 13 -> LM(w.x + 15, w.y - 130)
            [] i = 16 -> Tip(16, LM(20, -280), LM(15, -90), LM(130, -15))
            [] i = 17 -> LM(w.x + 30, w.y - 110)
            [] i = 20 -> Tip(20, LM(50, -220), LM(30, -70), LM(110, -30))]

\* landmark sets are named; a frame lists the names the detectors returned
HandLandmarks(name) ==
    CASE name = "palm" -> OpenPalmHand
      [] name = "pinchMid" -> PinchMidHand
      [] name = "pinchLow" -> PinchLowHand
      [] name = "palmPinch" -> PalmPinchHand
      [] name = "near" -> NearHand
      [] name = "pinchGround" -> PinchGroundHand
      [] name = "fiveOut" -> FingersHand({}, {})
      [] name = "thumbIn" -> FingersHand({4}, {})
      [] name = "indexIn" -> FingersHand({8}, {})
      [] name = "middleIn" -> FingersHand({12}, {})
      [] name = "ringIn" -> FingersHand({16}, {})
      [] name = "pinkyIn" -> FingersHand({20}, {})
      [] name = "thumbLevel" -> FingersHand({}, {4})
      [] name = "indexLevel" -> FingersHand({}, {8})

\* a face: the y of landmarks 13, 14 (lips), 10, 152 (top, bottom)
MkFace(mouthDist, faceHeight) ==
    [upperLip |-> 500, lowerLip |-> 500 + mouthDist,
     faceTop |-> 300, faceBottom |-> 300 + faceHeight]

FaceThreshold == MkFace(10, 400)     \* openness exactly 0.05
FaceOpen == MkFace(16, 400)          \* openness 0.2
FaceDegenerate == MkFace(0, 0)       \* 0/0

FaceLandmarks(name) ==
    CASE name = "threshold" -> FaceThreshold
      [] name = "open" -> FaceOpen
      [] name = "degenerate" -> FaceDegenerate

Frame(faces, hands) == [face |-> faces, hands |-> hands]

\* the landmark frames a tick may see (numFaces: 1, numHands: 2)
Frames ==
    { Frame(<<>>, <<>>),
      Frame(<<"open">>, <<>>),
      Frame(<<"threshold">>, <<>>),
      Frame(<<"degenerate">>, <<>>),
      Frame(<<>>, <<"pinchMid">>),
      Frame(<<"open">>, <<"pinchLow">>),
      Frame(<<>>, <<"near">>),
      Frame(<<>>, <<"palm">>),
      Frame(<<"open">>, <<"palm">>),
      Frame(<<>>, <<"palmPinch">>),
      Frame(<<>>, <<"palm", "pinchMid">>),
      Frame(<<>>, <<"pinchMid", "palm">>),
      Frame(<<>>, <<"pinchMid", "pinchLow">>) }

FaceOf(frame) == [i \in 1..Len(frame.face) |-> FaceLandmarks(frame.face[i])]
HandsOf(frame) == [i \in 1..Len(frame.hands) |-> HandLandmarks(frame.hands[i])]

DeltaTimes == {50, 100, 5100}
HeightFactors == {50, 100}
SpeciesDraws == {0, 800}
SpeciesOptions == {"Random", "Rose", "Tulip"}
HeightDraws == {500}
SeedDraws == {500}
Configs == {[selectedSpecies |-> sp, growthHeightFactor |-> h] :
               sp \in SpeciesOptions, h \in HeightFactors}

\* video.currentTime, counted from the timestamp last recorded, and
\* video.readyState (2 is HAVE_CURRENT_DATA)
VideoTimes == {0, 1}
ReadyStates == {1, 2}
Videos == {[currentTime |-> t, readyState |-> r] : t \in VideoTimes, r \in ReadyStates}


(***************************************************************************)
(* processInteraction: the signal interpreter                              *)
(***************************************************************************)
\* mutant: the lips are read without the test for a detected face
MouthOpennessUnguarded(faceLandmarks) ==
    IF Len(faceLandmarks) = 0 THEN NaN
    ELSE LET f == faceLandmarks[1]
             faceHeight == Abs(f.faceTop - f.faceBottom)
             mouthDist == Abs(f.upperLip - f.lowerLip)
         IN IF faceHeight = 0
            THEN (IF mouthDist = 0 THEN NaN ELSE Milli)
            ELSE Min(Max((mouthDist * 10 * Milli) \div faceHeight - 200, 0), Milli)

\* Math.min(Math.max(mouthDist / faceHeight - 0.02, 0) * 10, 1); a face of
\* height 0 gives NaN (0/0) or 1 (x/0 = Infinity)
MouthOpenness(faceLandmarks) ==
    IF Len(faceLandmarks) = 0 THEN 0
    ELSE LET f == faceLandmarks[1]
             faceHeight == Abs(f.faceTop - f.faceBottom)
             mouthDist == Abs(f.upperLip - f.lowerLip)
         IN IF faceHeight = 0
            THEN (IF mouthDist = 0 THEN NaN ELSE Milli)
            ELSE Min(Max((mouthDist * 10 * Milli) \div faceHeight - 200, 0), Milli)

\* mutant: a tip as far from the wrist as its joint counts as extended
isTipFartherOrLevel(landmarks, tipIdx, jointIdx) ==
    Hypot2(landmarks[tipIdx].x - landmarks[0].x, landmarks[tipIdx].y - landmarks[0].y)
      >= Hypot2(landmarks[jointIdx].x - landmarks[0].x, landmarks[jointIdx].y - landmarks[0].y)

isTipFartherThanJoint(landmarks, tipIdx, jointIdx) ==
    Hypot2(landmarks[tipIdx].x - landmarks[0].x, landmarks[tipIdx].y - landmarks[0].y)
      > Hypot2(landmarks[jointIdx].x - landmarks[0].x, landmarks[jointIdx].y - landmarks[0].y)

IsOpenPalm(landmarks) ==
    /\ isTipFartherThanJoint(landmarks, 4, 2)
    /\ isTipFartherThanJoint(landmarks, 8, 5)
    /\ isTipFartherThanJoint(landmarks, 12, 9)
    /\ isTipFartherThanJoint(landmarks, 16, 13)
    /\ isTipFartherThanJoint(landmarks, 20, 17)

\* mutant: pass 1 stops after the first hand
AnyPalmOpenFirstOnly(hands) == Len(hands) > 0 /\ IsOpenPalm(hands[1])

\* pass 1
AnyPalmOpenDetected(hands) == \E i \in 1..Len(hands) : IsOpenPalm(hands[i])

PinchDist(landmarks) ==
    Hypot(landmarks[4].x - landmarks[8].x, landmarks[4].y - landmarks[8].y)

\* mutant: the proximity is not capped at 1
ProximityUncapped(pinchDist) ==
    Max(0, ((PinchFar - pinchDist) * Milli) \div (PinchFar - PinchThreshold))

\* Math.max(0, Math.min(1, (0.15 - pinchDist) / (0.15 - 0.05)))
Proximity(pinchDist) ==
    Max(0, Min(Milli, ((PinchFar - pinchDist) * Milli) \div (PinchFar - PinchThreshold)))

IsPinch(landmarks) == PinchDist(landmarks) < PinchThreshold

\* mutant: width and height swapped
PinchPointSwapped(landmarks, width, height) ==
    LM(landmarks[8].x * height, landmarks[8].y * width)

PinchPoint(landmarks, width, height) ==
    LM(landmarks[8].x * width, landmarks[8].y * height)

\* species of a new seed; `draw` is Math.random()
SpawnSpecies(cfg, draw) ==
    IF cfg.selectedSpecies = "Random"
    THEN FlowerSpecies[((draw * Len(FlowerSpecies)) \div Milli) + 1]
    ELSE cfg.selectedSpecies

spawnSeed(ss, loc, cfg, draw, id) ==
    Append(ss, [id |-> id, x |-> loc.x, y |-> loc.y, vy |-> SeedFallSpeed,
                species |-> SpawnSpecies(cfg, draw),
                color |-> getSpeciesColor(SpawnSpecies(cfg, draw)),
                isLanded |-> FALSE])

\* mutant: the gate is open whatever the cooldown
CanSpawnAlways(cooldown) == TRUE

\* the spawn gate of a pinching hand
CanSpawn(cooldown) == cooldown <= 0

\* pass 2, hands i..Len(hands) in list order; acc carries what the loop writes
RECURSIVE PinchPass(_, _, _, _, _, _, _)
PinchPass(hands, i, width, height, cfg, draw, acc) ==
    IF i > Len(hands) THEN acc
    ELSE LET h == hands[i]
             prox == Proximity(PinchDist(h))
             a1 == [acc EXCEPT !.maxPinchProximity =
                                  IF prox > @ THEN prox ELSE @]
             loc == PinchPoint(h, width, height)
             a2 == IF ~IsPinch(h) THEN a1
                   ELSE IF CanSpawn(a1.cooldown)
                        THEN [a1 EXCEPT !.isPinching = TRUE,
                                        !.pinchLocation = <<loc>>,
                                        !.seeds = spawnSeed(@, loc, cfg, draw, a1.nextId),
                                        !.nextId = @ + 1,
                                        !.spawned = @ + 1,
                                        !.cooldown = PinchCooldownMs]
                        ELSE [a1 EXCEPT !.isPinching = TRUE,
                                        !.pinchLocation = <<loc>>]
         IN PinchPass(hands, i + 1, width, height, cfg, draw, a2)

\* for every plant 20 particles of its colour, then 10 green ones
RECURSIVE Burst(_, _)
Burst(ps, from) ==
    IF from > Len(ps) THEN <<>>
    ELSE [k \in 1..(ParticleCount + StemParticleCount) |->
              [life |-> ParticleLife,
               color |-> IF k <= ParticleCount THEN ps[from].color ELSE StemColor]]
         \o Burst(ps, from + 1)

\* mutant: the seed collection is not cleared
explodePlantsKeepSeeds(st) ==
    [st EXCEPT !.particles = @ \o Burst(st.plants, 1),
               !.plants = <<>>]

explodePlants(st) ==
    [st EXCEPT !.particles = @ \o Burst(st.plants, 1),
               !.plants = <<>>,
               !.seeds = <<>>]

ClearFires(timer) == timer > ClearHoldMs

\* mutant: the timer is not reset when the trigger fires
PalmTimerNoReset(timer) == timer

\* clearTimer when the palm branch is left
PalmTimer(timer) == IF ClearFires(timer) THEN 0 ELSE timer

CooldownStep(cooldown, dt) == IF cooldown > 0 THEN cooldown - dt ELSE cooldown

\* mutant: decay at the accumulation rate
ClearDecaySlow(timer, dt) == Max(0, timer - dt)

\* mutant: the decay is not floored at 0
ClearDecayNoFloor(timer, dt) == timer - dt * 2

ClearDecay(timer, dt) == Max(0, timer - dt * 2)

\* processInteraction(faceResult, handResult, width, height, deltaTime) on the
\* state st = [interaction, pinchCooldown, seeds, plants, particles, nextId];
\* the result also reports the trigger event that fired
processInteraction(st, face, hands, width, height, dt, cfg, draw) ==
    LET mouth == MouthOpenness(face)
        anyPalm == AnyPalmOpenDetected(hands)
        acc0 == [isPinching |-> FALSE,
                 pinchLocation |-> st.interaction.pinchLocation,
                 maxPinchProximity |-> 0,
                 cooldown |-> st.pinchCooldown,
                 seeds |-> st.seeds,
                 nextId |-> st.nextId,
                 spawned |-> 0]
        acc == IF anyPalm THEN acc0
               ELSE PinchPass(hands, 1, width, height, cfg, draw, acc0)
        s1 == [st EXCEPT !.seeds = acc.seeds,
                         !.nextId = acc.nextId,
                         !.pinchCooldown = CooldownStep(acc.cooldown, dt)]
        timer == st.interaction.clearTimer + dt
        fires == anyPalm /\ ClearFires(timer)
        s2 == IF fires THEN explodePlants(s1) ELSE s1
        inter == [isPinching |-> acc.isPinching,
                  pinchLocation |-> acc.pinchLocation,
                  pinchProximity |-> acc.maxPinchProximity,
                  mouthOpenness |-> mouth,
                  isPalmOpen |-> anyPalm,
                  clearTimer |-> IF anyPalm
                                 THEN PalmTimer(timer)
                                 ELSE ClearDecay(st.interaction.clearTimer, dt)]
    IN [state |-> [s2 EXCEPT !.interaction = inter],
        spawned |-> acc.spawned,
        cleared |-> fires]


(***************************************************************************)
(* Entity simulation                                                       *)
(***************************************************************************)
\* mutant: seeds land on the lower edge of the canvas
GroundYNoMargin(groundLevel) == groundLevel * Milli

GroundY(groundLevel) == (groundLevel - GroundMargin) * Milli

\* the fall step of one seed
Fall(seed, groundLevel) ==
    IF seed.isLanded THEN seed
    ELSE LET y == seed.y + seed.vy
         IN IF y >= GroundY(groundLevel)
            THEN [seed EXCEPT !.y = GroundY(groundLevel), !.vy = @ + SeedGravity,
                              !.isLanded = TRUE]
            ELSE [seed EXCEPT !.y = y, !.vy = @ + SeedGravity]

\* the plant a seed becomes when it lands in this step
Sprout(before, after, hDraw, sDraw) ==
    [id |-> after.id, x |-> after.x, y |-> after.y, height |-> 0,
     maxHeight |-> MaxHeightBase + hDraw * MaxHeightSpread,
     growthProgress |-> 0,
     species |-> after.species, color |-> after.color,
     seed |-> sDraw * PlantSeedSpread]

RECURSIVE Sprouts(_, _, _, _, _)
Sprouts(ss, i, groundLevel, hDraw, sDraw) ==
    IF i > Len(ss) THEN <<>>
    ELSE LET after == Fall(ss[i], groundLevel)
         IN (IF ~ss[i].isLanded /\ after.isLanded
             THEN <<Sprout(ss[i], after, hDraw, sDraw)>> ELSE <<>>)
            \o Sprouts(ss, i + 1, groundLevel, hDraw, sDraw)

\* mutant: landed seeds are not filtered out
KeepSeedAll(s) == TRUE

KeepSeed(s) == ~s.isLanded

\* updateSeeds(groundLevel): [seeds, plants] when it returns
updateSeeds(ss, ps, groundLevel, hDraw, sDraw) ==
    LET fallen == [i \in 1..Len(ss) |-> Fall(ss[i], groundLevel)]
    IN [seeds |-> SelectSeq(fallen, KeepSeed),
        plants |-> ps \o Sprouts(ss, 1, groundLevel, hDraw, sDraw)]

\* mutant: a particle whose life has reached 0 is kept
KeepParticleAtZero(p) == p.life >= 0

KeepParticle(p) == p.life > 0

updateParticles(pp) ==
    SelectSeq([i \in 1..Len(pp) |-> [pp[i] EXCEPT !.life = @ - ParticleFade]],
              KeepParticle)

\* mutant: the threshold itself counts as open
MouthOpenInclusive(mouth) == mouth # NaN /\ mouth >= MouthThreshold

\* mouthOpenness > 0.05; false for NaN
MouthOpen(mouth) == mouth # NaN /\ mouth > MouthThreshold

\* mouthOpenness * 0.001 * growthSpeed
GrowthInput(mouth, dt) == mouth * GrowthSpeed

\* mutant: no clamp at 1
GrowNoClamp(plant, mouth, dt) ==
    IF MouthOpen(mouth) /\ plant.growthProgress < ProgressOne
    THEN [plant EXCEPT !.growthProgress = @ + GrowthInput(mouth, dt)]
    ELSE plant

Grow(plant, mouth, dt) ==
    IF MouthOpen(mouth) /\ plant.growthProgress < ProgressOne
    THEN [plant EXCEPT !.growthProgress = Min(@ + GrowthInput(mouth, dt), ProgressOne)]
    ELSE plant

\* mutant: fully grown plants are dropped from the collection
updatePlantsDropGrown(ps, mouth, dt) ==
    LET NotGrown(p) == p.growthProgress < ProgressOne
    IN SelectSeq([i \in 1..Len(ps) |-> Grow(ps[i], mouth, dt)], NotGrown)

\* mutant: a plant that has not grown yet is passed over
updatePlantsSkipNew(ps, mouth, dt) ==
    [i \in 1..Len(ps) |-> IF ps[i].growthProgress = 0 THEN ps[i]
                          ELSE Grow(ps[i], mouth, dt)]

updatePlants(ps, mouth, dt) == [i \in 1..Len(ps) |-> Grow(ps[i], mouth, dt)]

\* mutant: the retarget is not guarded by selectedSpecies !== 'Random'
RetargetAlways(es, cfg) ==
    [i \in 1..Len(es) |->
        [es[i] EXCEPT !.species = cfg.selectedSpecies,
                      !.color = getSpeciesColor(cfg.selectedSpecies)]]

\* mutant: the colour is not derived again from the new species
RetargetSpeciesOnly(es, cfg) ==
    IF cfg.selectedSpecies # "Random"
    THEN [i \in 1..Len(es) |-> [es[i] EXCEPT !.species = cfg.selectedSpecies]]
    ELSE es

\* mutant: existing seeds and plants are left as they are
RetargetOff(es, cfg) == es

\* the retarget of useEffect[config]
Retarget(es, cfg) ==
    IF cfg.selectedSpecies # "Random"
    THEN [i \in 1..Len(es) |->
            [es[i] EXCEPT !.species = cfg.selectedSpecies,
                          !.color = getSpeciesColor(cfg.selectedSpecies)]]
    ELSE es

\* mutant: the timestamps are not compared
FrameIsNewUnchecked(vid, last) == vid.readyState >= 2

\* video.currentTime !== lastVideoTimeRef.current && video.readyState >= 2
FrameIsNew(vid, last) == vid.currentTime # last /\ vid.readyState >= 2

\* the state the vision block leaves when it is skipped
visionSkipped(st, dt) == st

\* mutant: the cooldown is counted down outside the try block
detectionFailedCountdown(st, dt) ==
    [st EXCEPT !.pinchCooldown = IF @ > 0 THEN @ - dt ELSE @]

\* the state the try block leaves when detectForVideo throws
detectionFailed(st, dt) == st

(***************************************************************************)
(* State machine                                                           *)
(***************************************************************************)
NoHold == [accum |-> 0, fires |-> 0]
NoRelease == [from |-> 0, ms |-> 0]

\* the refs and state of App as constructed
Constructed ==
    /\ seeds = <<>>
    /\ plants = <<>>
    /\ particles = <<>>
    /\ interaction = [isPinching |-> FALSE, pinchLocation |-> <<>>,
                      pinchProximity |-> 0, mouthOpenness |-> 0,
                      isPalmOpen |-> FALSE, clearTimer |-> 0]
    /\ pinchCooldown = 0
    /\ lastVideoTime = -1
    /\ requestRef = "none"
    /\ rafPending = 0
    /\ cleanedUp = FALSE
    /\ deltaTime = 0
    /\ video = <<>>
    /\ detection = "none"
    /\ landmarkFrame = <<>>
    /\ trigger = "none"
    /\ nextId = 1
    /\ ticks = 0
    /\ sinceSpawn = -1
    /\ hold = [accum |-> 0, fires |-> 0]
    /\ release = [from |-> 0, ms |-> 0]
    /\ sprouted = {}

\* models loaded, camera acquired, video attached
Started ==
    /\ active = TRUE
    /\ initPc = "returned"
    /\ faceLandmarker = TRUE
    /\ handLandmarker = TRUE
    /\ cameraPc = "returned"
    /\ stream = "live"
    /\ srcObject = TRUE
    /\ videoRef = TRUE

\* startCamera calls predictWebcam; the panel may have been used while loading
Init ==
    /\ config \in Configs
    /\ Constructed
    /\ Started
    /\ pc = "invoke"

Bundle == [interaction |-> interaction, pinchCooldown |-> pinchCooldown,
           seeds |-> seeds, plants |-> plants, particles |-> particles,
           nextId |-> nextId]

SinceSpawnNext(spawned, dt) ==
    IF spawned THEN 0
    ELSE IF sinceSpawn = -1 THEN -1
    ELSE Min(sinceSpawn + dt, PinchCooldownMs)

HoldNext(palm, cleared, dt) ==
    IF ~palm THEN NoHold
    ELSE IF cleared THEN [accum |-> 0, fires |-> hold.fires + 1]
    ELSE [hold EXCEPT !.accum = @ + dt]

\* timer: clearTimer before the tick
ReleaseNext(palm, timer, dt) ==
    IF palm \/ timer = 0 THEN NoRelease
    ELSE IF release.from = 0 THEN [from |-> timer, ms |-> dt]
    ELSE [release EXCEPT !.ms = @ + dt]

\* predictWebcam is entered: called by startCamera, or a scheduled callback runs
Invoked == pc = "invoke" \/ (pc = "idle" /\ rafPending > 0)

\* video, canvas and both landmarkers are there (line 175)
Ready == videoRef /\ faceLandmarker /\ handLandmarker

\* mutant: the next frame is requested after the early returns
RescheduledAfterChecks(early) == IF early THEN 0 ELSE 1

\* callbacks an invocation schedules; early: it returns at line 175 or 178
Rescheduled(early) == 1

\* line 169
ScheduleNext(early) ==
    /\ rafPending' = (IF pc = "invoke" THEN rafPending ELSE rafPending - 1)
                        + Rescheduled(early)
    /\ requestRef' = IF Rescheduled(early) > 0 THEN "pending" ELSE requestRef

\* predictWebcam up to the end of "1. Vision Processing", on a frame whose
\* timestamp is new and whose detection succeeds
TickProcessed(dt, vid, frame, draw) ==
    /\ Invoked /\ Ready
    /\ ticks < MaxTicks
    /\ FrameIsNew(vid, lastVideoTime)
    /\ \E r \in {processInteraction(Bundle, FaceOf(frame), HandsOf(frame), CanvasWidth,
                                     CanvasHeight, dt, config, draw)} :
          /\ ScheduleNext(FALSE)
          /\ pc' = "seeds"
          /\ ticks' = ticks + 1
          /\ deltaTime' = dt
          /\ video' = <<vid>>
          /\ detection' = "ok"
          /\ lastVideoTime' = 0
          /\ landmarkFrame' = <<frame>>
          /\ interaction' = r.state.interaction
          /\ pinchCooldown' = r.state.pinchCooldown
          /\ seeds' = r.state.seeds
          /\ plants' = r.state.plants
          /\ particles' = r.state.particles
          /\ nextId' = r.state.nextId
          /\ trigger' = IF r.cleared THEN "clear"
                        ELSE IF r.spawned > 0 THEN "spawn" ELSE "none"
          /\ sinceSpawn' = SinceSpawnNext(r.spawned > 0, dt)
          /\ hold' = HoldNext(r.state.interaction.isPalmOpen, r.cleared, dt)
          /\ release' = ReleaseNext(r.state.interaction.isPalmOpen, interaction.clearTimer, dt)
          /\ UNCHANGED <<config, sprouted, lifeVars>>

\* the rest of the tick's first step, after a vision block that left st
TickWithout(dt, vid, outcome, st) ==
    /\ pc' = "seeds"
    /\ ticks' = ticks + 1
    /\ deltaTime' = dt
    /\ video' = <<vid>>
    /\ detection' = outcome
    /\ interaction' = st.interaction
    /\ pinchCooldown' = st.pinchCooldown
    /\ seeds' = st.seeds
    /\ plants' = st.plants
    /\ particles' = st.particles
    /\ nextId' = st.nextId
    /\ sinceSpawn' = SinceSpawnNext(FALSE, dt)
    /\ ScheduleNext(FALSE)
    /\ UNCHANGED <<config, landmarkFrame, trigger, hold, release, sprouted, lifeVars>>

\* the frame is not new (or the video not ready): detection is skipped
TickStale(dt, vid) ==
    /\ Invoked /\ Ready
    /\ ticks < MaxTicks
    /\ ~FrameIsNew(vid, lastVideoTime)
    /\ TickWithout(dt, vid, "skipped", visionSkipped(Bundle, dt))
    /\ UNCHANGED lastVideoTime

\* detectForVideo throws: caught, processInteraction is not reached
TickDetectionError(dt, vid) ==
    /\ Invoked /\ Ready
    /\ ticks < MaxTicks
    /\ FrameIsNew(vid, lastVideoTime)
    /\ TickWithout(dt, vid, "error", detectionFailed(Bundle, dt))
    /\ lastVideoTime' = 0

\* some seed lands in the coming seed step (Math.random() is drawn only then)
Landing == \E i \in 1..Len(seeds) : Fall(seeds[i], CanvasHeight).isLanded

StepSeeds(hDraw, sDraw) ==
    /\ pc = "seeds"
    /\ pc' = "particles"
    /\ \E r \in {updateSeeds(seeds, plants, CanvasHeight, hDraw, sDraw)} :
          /\ seeds' = r.seeds
          /\ plants' = r.plants
          /\ sprouted' = {r.plants[k].id : k \in (Len(plants) + 1)..Len(r.plants)}
    /\ video' = <<>>
    /\ landmarkFrame' = <<>>
    /\ UNCHANGED <<config, particles, interaction, pinchCooldown, lastVideoTime,
                      deltaTime, detection, trigger, nextId, ticks,
                      sinceSpawn, hold, release, lifeVars, loopVars>>

StepParticles ==
    /\ pc = "particles"
    /\ pc' = "plants"
    /\ particles' = updateParticles(particles)
    /\ UNCHANGED <<config, seeds, plants, interaction, pinchCooldown, lastVideoTime,
                   deltaTime, video, detection, landmarkFrame, trigger, nextId, ticks,
                   sinceSpawn, hold, release, sprouted, lifeVars, loopVars>>

StepPlants ==
    /\ pc = "plants"
    /\ pc' = "idle"
    /\ plants' = updatePlants(plants, interaction.mouthOpenness, deltaTime)
    /\ deltaTime' = 0
    /\ detection' = "none"
    /\ trigger' = "none"
    /\ sprouted' = {}
    /\ UNCHANGED <<config, seeds, particles, interaction, pinchCooldown, lastVideoTime,
                   video, landmarkFrame, nextId, ticks, sinceSpawn, hold, release,
                   lifeVars, loopVars>>

\* ControlPanel's onConfigChange followed by useEffect[config]
ConfigChange(newConfig) ==
    /\ pc = "idle"
    /\ newConfig # config
    /\ config' = newConfig
    /\ plants' = Retarget(plants, newConfig)
    /\ seeds' = Retarget(seeds, newConfig)
    /\ UNCHANGED <<particles, interaction, pinchCooldown, lastVideoTime, pc, deltaTime,
                   video, detection, landmarkFrame, trigger, nextId, ticks,
                   sinceSpawn, hold, release, sprouted, lifeVars, loopVars>>

SelectSpecies(sp) == ConfigChange([config EXCEPT !.selectedSpecies = sp])

SetHeightFactor(h) == ConfigChange([config EXCEPT !.growthHeightFactor = h])

Next ==
    \/ \E dt \in DeltaTimes, vid \in Videos, frame \in Frames :
         \E draw \in (IF config.selectedSpecies = "Random" /\ CanSpawn(pinchCooldown)
                       THEN SpeciesDraws ELSE {0}) :
            TickProcessed(dt, vid, frame, draw)
    \/ \E dt \in DeltaTimes, vid \in Videos : TickStale(dt, vid)
    \/ \E dt \in DeltaTimes, vid \in Videos : TickDetectionError(dt, vid)
    \/ \E hDraw \in (IF Landing THEN HeightDraws ELSE {0}),
          sDraw \in (IF Landing THEN SeedDraws ELSE {0}) : StepSeeds(hDraw, sDraw)
    \/ StepParticles
    \/ StepPlants
    \/ \E sp \in SpeciesOptions : SelectSpecies(sp)
    \/ \E h \in HeightFactors : SetHeightFactor(h)

Spec == Init /\ [][Next]_vars


(***************************************************************************)
(* Life cycle: useEffect[initVision], startCamera, the loop, the cleanup.  *)
(* Every await is a point where the other callbacks interleave.            *)
(***************************************************************************)
LifeDeltaTimes == {100}
LifeFrames == {Frame(<<>>, <<>>), Frame(<<>>, <<"pinchMid">>)}

\* the effect has run: initVision is suspended at its first await
InitLife ==
    /\ config = [selectedSpecies |-> "Random", growthHeightFactor |-> 100]
    /\ Constructed
    /\ active = TRUE
    /\ initPc = "resolver"
    /\ faceLandmarker = FALSE
    /\ handLandmarker = FALSE
    /\ cameraPc = "idle"
    /\ stream = "none"
    /\ srcObject = FALSE
    /\ videoRef = TRUE
    /\ pc = "idle"

gardenVars == <<config, seeds, plants, particles, interaction, pinchCooldown,
                lastVideoTime, deltaTime, video, detection, landmarkFrame,
                trigger, nextId, ticks, sinceSpawn, hold, release, sprouted>>

\* FilesetResolver.forVisionTasks settles; ok: it resolves
ResolverSettled(ok) ==
    /\ pc = "idle" /\ initPc = "resolver"
    /\ initPc' = IF ok /\ active THEN "face" ELSE "returned"
    /\ UNCHANGED <<gardenVars, pc, loopVars, active, faceLandmarker, handLandmarker,
                   cameraPc, stream, srcObject, videoRef, cleanedUp>>

\* FaceLandmarker.createFromOptions settles; the ref is assigned before
\* `active` is looked at
FaceLandmarkerSettled(ok) ==
    /\ pc = "idle" /\ initPc = "face"
    /\ faceLandmarker' = ok
    /\ initPc' = IF ok /\ active THEN "hand" ELSE "returned"
    /\ UNCHANGED <<gardenVars, pc, loopVars, active, handLandmarker,
                   cameraPc, stream, srcObject, videoRef, cleanedUp>>

\* the start of startCamera, up to its await
CameraAfterCall == IF videoRef THEN "acquiring" ELSE "returned"

\* HandLandmarker.createFromOptions settles; `if (active) startCamera()`
HandLandmarkerSettled(ok) ==
    /\ pc = "idle" /\ initPc = "hand"
    /\ handLandmarker' = ok
    /\ initPc' = "returned"
    /\ cameraPc' = IF ok /\ active THEN CameraAfterCall ELSE cameraPc
    /\ UNCHANGED <<gardenVars, pc, loopVars, active, faceLandmarker,
                   stream, srcObject, videoRef, cleanedUp>>

\* getUserMedia settles; ok: a stream is granted; readyState: of the video
\* right after srcObject is set
GetUserMediaSettled(ok, readyState) ==
    /\ pc = "idle" /\ cameraPc = "acquiring"
    /\ stream' = IF ok THEN "live" ELSE stream
    /\ srcObject' = (ok /\ videoRef)
    /\ cameraPc' = IF ok /\ videoRef /\ readyState < 2 THEN "waiting" ELSE "returned"
    /\ pc' = IF ok /\ videoRef /\ readyState >= 2 THEN "invoke" ELSE pc
    /\ UNCHANGED <<gardenVars, loopVars, active, initPc, faceLandmarker,
                   handLandmarker, videoRef, cleanedUp>>

\* video.onloadeddata
OnLoadedData ==
    /\ pc = "idle" /\ cameraPc = "waiting"
    /\ cameraPc' = "returned"
    /\ pc' = "invoke"
    /\ UNCHANGED <<gardenVars, loopVars, active, initPc, faceLandmarker,
                   handLandmarker, stream, srcObject, videoRef, cleanedUp>>

\* the cleanup of useEffect[initVision]; detached: the refs of the unmounted
\* elements have been cleared before it runs
Cleanup(detached) ==
    /\ pc = "idle" /\ ~cleanedUp
    /\ cleanedUp' = TRUE
    /\ active' = FALSE
    /\ rafPending' = IF requestRef = "pending" THEN rafPending - 1 ELSE rafPending
    /\ requestRef' = IF requestRef = "none" THEN "none" ELSE "stale"
    /\ videoRef' = ~detached
    /\ stream' = IF ~detached /\ srcObject /\ stream = "live" THEN "stopped" ELSE stream
    /\ UNCHANGED <<gardenVars, pc, initPc, faceLandmarker, handLandmarker,
                   cameraPc, srcObject>>

\* predictWebcam returns at line 175 or 178; ctx: getContext('2d') is not null
EarlyReturn(ctx) ==
    /\ Invoked
    /\ ticks < MaxTicks
    /\ ~(Ready /\ ctx)
    /\ ScheduleNext(TRUE)
    /\ pc' = "idle"
    /\ ticks' = ticks + 1
    /\ UNCHANGED <<config, seeds, plants, particles, interaction, pinchCooldown,
                   lastVideoTime, deltaTime, video, detection, landmarkFrame,
                   trigger, nextId, sinceSpawn, hold, release, sprouted, lifeVars>>

NextLife ==
    \/ \E ok \in BOOLEAN : ResolverSettled(ok)
    \/ \E ok \in BOOLEAN : FaceLandmarkerSettled(ok)
    \/ \E ok \in BOOLEAN : HandLandmarkerSettled(ok)
    \/ \E ok \in BOOLEAN, readyState \in ReadyStates : GetUserMediaSettled(ok, readyState)
    \/ OnLoadedData
    \/ \E detached \in BOOLEAN : Cleanup(detached)
    \/ \E ctx \in BOOLEAN : EarlyReturn(ctx)
    \/ \E dt \in LifeDeltaTimes, vid \in Videos, frame \in LifeFrames :
          TickProcessed(dt, vid, frame, 0)
    \/ \E dt \in LifeDeltaTimes, vid \in Videos : TickStale(dt, vid)
    \/ \E dt \in LifeDeltaTimes, vid \in Videos : TickDetectionError(dt, vid)
    \/ \E hDraw \in HeightDraws, sDraw \in SeedDraws : StepSeeds(hDraw, sDraw)
    \/ StepParticles
    \/ StepPlants

SpecLife == InitLife /\ [][NextLife]_vars

\* the browser runs a scheduled animation-frame callback, and a call that
\* has started runs to its end
Invocation ==
    \/ \E ctx \in BOOLEAN : EarlyReturn(ctx)
    \/ \E dt \in LifeDeltaTimes, vid \in Videos, frame \in LifeFrames :
          TickProcessed(dt, vid, frame, 0)
    \/ \E dt \in LifeDeltaTimes, vid \in Videos : TickStale(dt, vid)
    \/ \E dt \in LifeDeltaTimes, vid \in Videos : TickDetectionError(dt, vid)

Completion ==
    \/ \E hDraw \in HeightDraws, sDraw \in SeedDraws : StepSeeds(hDraw, sDraw)
    \/ StepParticles
    \/ StepPlants

SpecLifeFair == SpecLife /\ WF_vars(Invocation) /\ WF_vars(Completion)

(***************************************************************************)
(* A garden that has been growing: one plant, spawned by "pinchLow" under  *)
(* 'Random', 666 growth steps at mouthOpenness 0.2 old, everything else at *)
(* rest.  SpecGrown starts from this garden.                               *)
(***************************************************************************)
GrownPlant ==
    [id |-> 1, x |-> 320000, y |-> 700000, height |-> 0, maxHeight |-> 275000,
     growthProgress |-> 9990000, species |-> "Rose", color |-> "#e11d48",
     seed |-> 50000]

InitGrown ==
    /\ config = [selectedSpecies |-> "Random", growthHeightFactor |-> 100]
    /\ seeds = <<>>
    /\ plants = <<GrownPlant>>
    /\ particles = <<>>
    /\ interaction = [isPinching |-> FALSE,
                      pinchLocation |-> <<LM(320000, 691200)>>,
                      pinchProximity |-> 0, mouthOpenness |-> 0,
                      isPalmOpen |-> FALSE, clearTimer |-> 0]
    /\ pinchCooldown = 0
    /\ lastVideoTime = 0
    /\ pc = "idle"
    /\ deltaTime = 0
    /\ video = <<>>
    /\ detection = "none"
    /\ landmarkFrame = <<>>
    /\ trigger = "none"
    /\ nextId = Len(plants) + 1
    /\ ticks = 0
    /\ sinceSpawn = PinchCooldownMs
    /\ hold = NoHold
    /\ release = NoRelease
    /\ sprouted = {}
    /\ Started
    /\ requestRef = "pending"
    /\ rafPending = 1
    /\ cleanedUp = FALSE

\* the frames the grown garden is shown: nothing, an open mouth, a pinch
\* high up, near the ground or below the landing line, an open palm
GrownFrames ==
    { Frame(<<>>, <<>>),
      Frame(<<"open">>, <<>>),
      Frame(<<>>, <<"pinchMid">>),
      Frame(<<"open">>, <<"pinchLow">>),
      Frame(<<"open">>, <<"pinchGround">>),
      Frame(<<>>, <<"palm">>) }

NextGrown ==
    \/ \E dt \in DeltaTimes, vid \in Videos, frame \in GrownFrames :
         \E draw \in (IF config.selectedSpecies = "Random" /\ CanSpawn(pinchCooldown)
                       THEN SpeciesDraws ELSE {0}) :
            TickProcessed(dt, vid, frame, draw)
    \/ \E dt \in DeltaTimes, vid \in Videos : TickStale(dt, vid)
    \/ \E dt \in DeltaTimes, vid \in Videos : TickDetectionError(dt, vid)
    \/ \E hDraw \in (IF Landing THEN HeightDraws ELSE {0}),
          sDraw \in (IF Landing THEN SeedDraws ELSE {0}) : StepSeeds(hDraw, sDraw)
    \/ StepParticles
    \/ StepPlants
    \/ \E sp \in SpeciesOptions : SelectSpecies(sp)
    \/ \E h \in HeightFactors : SetHeightFactor(h)

SpecGrown == InitGrown /\ [][NextGrown]_vars

(***************************************************************************)
(* A garden some time after a clear-all: the burst of the plant that was   *)
(* exploded is about to fade out, and a seed pinched afterwards has landed *)
(* and not grown yet.  SpecFading starts from this garden.                 *)
(***************************************************************************)
FadingPlant == [GrownPlant EXCEPT !.growthProgress = 0, !.id = 2]

\* the burst of GrownPlant, with as many particle steps left as ticks remain
FadingParticles ==
    LET burst == Burst(<<GrownPlant>>, 1)
    IN [k \in 1..Len(burst) |-> [burst[k] EXCEPT !.life = ParticleFade * MaxTicks]]

InitFading ==
    /\ config = [selectedSpecies |-> "Random", growthHeightFactor |-> 100]
    /\ seeds = <<>>
    /\ plants = <<FadingPlant>>
    /\ particles = FadingParticles
    /\ interaction = [isPinching |-> FALSE,
                      pinchLocation |-> <<LM(320000, 691200)>>,
                      pinchProximity |-> 0, mouthOpenness |-> 0,
                      isPalmOpen |-> FALSE, clearTimer |-> 0]
    /\ pinchCooldown = 0
    /\ lastVideoTime = 0
    /\ pc = "idle"
    /\ deltaTime = 0
    /\ video = <<>>
    /\ detection = "none"
    /\ landmarkFrame = <<>>
    /\ trigger = "none"
    /\ nextId = FadingPlant.id + 1
    /\ ticks = 0
    /\ sinceSpawn = PinchCooldownMs
    /\ hold = NoHold
    /\ release = NoRelease
    /\ sprouted = {}
    /\ Started
    /\ requestRef = "pending"
    /\ rafPending = 1
    /\ cleanedUp = FALSE

\* the frames the fading garden is shown: nothing, an open palm
FadingFrames == {Frame(<<>>, <<>>), Frame(<<>>, <<"palm">>)}

InvocationFading ==
    \/ \E dt \in DeltaTimes, vid \in Videos, frame \in FadingFrames :
          TickProcessed(dt, vid, frame, 0)
    \/ \E dt \in DeltaTimes, vid \in Videos : TickStale(dt, vid)
    \/ \E dt \in DeltaTimes, vid \in Videos : TickDetectionError(dt, vid)

NextFading ==
    \/ \E dt \in DeltaTimes, vid \in Videos, frame \in FadingFrames :
          TickProcessed(dt, vid, frame, 0)
    \/ \E dt \in DeltaTimes, vid \in Videos : TickStale(dt, vid)
    \/ \E dt \in DeltaTimes, vid \in Videos : TickDetectionError(dt, vid)
    \/ \E hDraw \in HeightDraws, sDraw \in SeedDraws : StepSeeds(hDraw, sDraw)
    \/ StepParticles
    \/ StepPlants

SpecFading == InitFading /\ [][NextFading]_vars

\* a scheduled animation-frame callback is run, and a call that has started
\* runs to its end
SpecFadingFair == SpecFading /\ WF_vars(InvocationFading) /\ WF_vars(Completion)

(***************************************************************************)
(* Hands shown finger by finger to a garden that has just started.         *)
(***************************************************************************)
FingerHands == {"fiveOut", "thumbIn", "indexIn", "middleIn", "ringIn", "pinkyIn",
                "thumbLevel", "indexLevel"}

\* no hand, one hand, two hands (numHands: 2)
FingerFrames ==
    {Frame(<<>>, <<>>)}
      \cup {Frame(<<>>, <<a>>) : a \in FingerHands}
      \cup {Frame(<<>>, <<a, b>>) : a \in FingerHands, b \in FingerHands}

InitFingers ==
    /\ config = [selectedSpecies |-> "Random", growthHeightFactor |-> 100]
    /\ Constructed
    /\ Started
    /\ pc = "invoke"

NextFingers ==
    \/ \E dt \in DeltaTimes, vid \in Videos, frame \in FingerFrames :
          TickProcessed(dt, vid, frame, 0)
    \/ \E dt \in DeltaTimes, vid \in Videos : TickStale(dt, vid)
    \/ \E dt \in DeltaTimes, vid \in Videos : TickDetectionError(dt, vid)
    \/ \E hDraw \in HeightDraws, sDraw \in SeedDraws : StepSeeds(hDraw, sDraw)
    \/ StepParticles
    \/ StepPlants

SpecFingers == InitFingers /\ [][NextFingers]_vars

(***************************************************************************)
(* The grown garden with an open palm held over it for 4.9 s.  Two         *)
(* callbacks may read the same performance.now() (deltaTime 0), and a      *)
(* callback may come late.  SpecHeld starts from this garden.              *)
(***************************************************************************)
HeldDeltaTimes == {0, 100, 5100}

InitHeld ==
    /\ config = [selectedSpecies |-> "Random", growthHeightFactor |-> 100]
    /\ seeds = <<>>
    /\ plants = <<GrownPlant>>
    /\ particles = <<>>
    /\ interaction = [isPinching |-> FALSE,
                      pinchLocation |-> <<LM(320000, 691200)>>,
                      pinchProximity |-> 0, mouthOpenness |-> 0,
                      isPalmOpen |-> TRUE, clearTimer |-> ClearHoldMs - 100]
    /\ pinchCooldown = 0
    /\ lastVideoTime = 0
    /\ pc = "idle"
    /\ deltaTime = 0
    /\ video = <<>>
    /\ detection = "none"
    /\ landmarkFrame = <<>>
    /\ trigger = "none"
    /\ nextId = Len(plants) + 1
    /\ ticks = 0
    /\ sinceSpawn = PinchCooldownMs
    /\ hold = [accum |-> ClearHoldMs - 100, fires |-> 0]
    /\ release = NoRelease
    /\ sprouted = {}
    /\ Started
    /\ requestRef = "pending"
    /\ rafPending = 1
    /\ cleanedUp = FALSE

\* the frames the held garden is shown: nothing, an open palm, a pinch
HeldFrames == {Frame(<<>>, <<>>), Frame(<<>>, <<"palm">>), Frame(<<>>, <<"pinchMid">>)}

NextHeld ==
    \/ \E dt \in HeldDeltaTimes, vid \in Videos, frame \in HeldFrames,
          draw \in SpeciesDraws : TickProcessed(dt, vid, frame, draw)
    \/ \E dt \in HeldDeltaTimes, vid \in Videos : TickStale(dt, vid)
    \/ \E dt \in HeldDeltaTimes, vid \in Videos : TickDetectionError(dt, vid)
    \/ \E hDraw \in HeightDraws, sDraw \in SeedDraws : StepSeeds(hDraw, sDraw)
    \/ StepParticles
    \/ StepPlants

SpecHeld == InitHeld /\ [][NextHeld]_vars

(***************************************************************************)
(* A garden with a seed in flight: pinched at the middle of the canvas 27  *)
(* seed steps ago, it lands in the second seed step from here.             *)
(* SpecFalling starts from this garden.                                    *)
(***************************************************************************)
RECURSIVE FallN(_, _)
FallN(seed, n) == IF n = 0 THEN seed ELSE FallN(Fall(seed, CanvasHeight), n - 1)

FallingConfig == [selectedSpecies |-> "Rose", growthHeightFactor |-> 100]

FallingSeed ==
    FallN(spawnSeed(<<>>, PinchPoint(PinchMidHand, CanvasWidth, CanvasHeight),
                    FallingConfig, 0, 1)[1], 27)

InitFalling ==
    /\ config = FallingConfig
    /\ seeds = <<FallingSeed>>
    /\ plants = <<>>
    /\ particles = <<>>
    /\ interaction = [isPinching |-> FALSE,
                      pinchLocation |-> <<PinchPoint(PinchMidHand, CanvasWidth, CanvasHeight)>>,
                      pinchProximity |-> 0, mouthOpenness |-> 0,
                      isPalmOpen |-> FALSE, clearTimer |-> 0]
    /\ pinchCooldown = 0
    /\ lastVideoTime = 0
    /\ pc = "idle"
    /\ deltaTime = 0
    /\ video = <<>>
    /\ detection = "none"
    /\ landmarkFrame = <<>>
    /\ trigger = "none"
    /\ nextId = FallingSeed.id + 1
    /\ ticks = 0
    /\ sinceSpawn = PinchCooldownMs
    /\ hold = NoHold
    /\ release = NoRelease
    /\ sprouted = {}
    /\ Started
    /\ requestRef = "pending"
    /\ rafPending = 1
    /\ cleanedUp = FALSE

\* the frames the falling seed's garden is shown: nothing, a pinch at the
\* middle, a pinch below the landing line, an open palm
FallingFrames ==
    { Frame(<<>>, <<>>),
      Frame(<<>>, <<"pinchMid">>),
      Frame(<<>>, <<"pinchGround">>),
      Frame(<<>>, <<"palm">>) }

InvocationFalling ==
    \/ \E dt \in DeltaTimes, vid \in Videos, frame \in FallingFrames :
          TickProcessed(dt, vid, frame, 0)
    \/ \E dt \in DeltaTimes, vid \in Videos : TickStale(dt, vid)
    \/ \E dt \in DeltaTimes, vid \in Videos : TickDetectionError(dt, vid)

NextFalling ==
    \/ \E dt \in DeltaTimes, vid \in Videos, frame \in FallingFrames :
          TickProcessed(dt, vid, frame, 0)
    \/ \E dt \in DeltaTimes, vid \in Videos : TickStale(dt, vid)
    \/ \E dt \in DeltaTimes, vid \in Videos : TickDetectionError(dt, vid)
    \/ \E hDraw \in HeightDraws, sDraw \in SeedDraws : StepSeeds(hDraw, sDraw)
    \/ StepParticles
    \/ StepPlants

SpecFalling == InitFalling /\ [][NextFalling]_vars

\* a scheduled animation-frame callback is run, and a call that has started
\* runs to its end
SpecFallingFair == SpecFalling /\ WF_vars(InvocationFalling) /\ WF_vars(Completion)

(***************************************************************************)
(* Claims                                                                  *)
(***************************************************************************)
TickStep == pc \in {"idle", "invoke"} /\ pc' = "seeds"
Processed == landmarkFrame # <<>>
FrameHands == HandsOf(landmarkFrame[1])
Entities == [i \in 1..(Len(seeds) + Len(plants)) |->
                IF i <= Len(seeds) THEN seeds[i] ELSE plants[i - Len(seeds)]]

\* C1: across every step (tick steps, config changes, clear-all) the
\* growthProgress of a plant that stays in the plant collection does not
\* decrease, and every plant's growthProgress is within [0,1].
C1_GrowthMonotoneBounded ==
    [][ /\ \A j \in 1..Len(plants') :
             plants'[j].growthProgress >= 0 /\ plants'[j].growthProgress <= ProgressOne
        /\ \A i \in 1..Len(plants), j \in 1..Len(plants') :
             plants[i].id = plants'[j].id
                => plants'[j].growthProgress >= plants[i].growthProgress ]_vars

\* a plant has reached full growth by a growth step that had to be clamped
C1_Witness ==
    /\ pc = "idle" /\ ticks > 0
    /\ \E i \in 1..Len(plants) : plants[i].growthProgress = ProgressOne

\* C2: a seed that lands in updateSeeds (y + vy >= groundLevel - 20) is gone
\* from the seed collection when updateSeeds returns, the plant collection
\* then holds a plant with its id and growthProgress 0, and no seed left in
\* the collection is landed.
C2_LandedSeedBecomesPlant ==
    [][ (pc = "seeds" /\ pc' = "particles") =>
          /\ \A i \in 1..Len(seeds) :
                seeds[i].y + seeds[i].vy >= (CanvasHeight - GroundMargin) * Milli
                =>  /\ \A k \in 1..Len(seeds') : seeds'[k].id # seeds[i].id
                    /\ \E j \in 1..Len(plants') :
                          /\ plants'[j].id = seeds[i].id
                          /\ plants'[j].growthProgress = 0
          /\ \A k \in 1..Len(seeds') : ~seeds'[k].isLanded ]_vars

\* the seed spawned in the first tick has landed in the second tick's seed step
C2_Witness ==
    /\ pc = "particles" /\ ticks = 2
    /\ seeds = <<>>
    /\ Len(plants) = 1 /\ plants[1].id = 1 /\ plants[1].growthProgress = 0

\* C3: two ticks that both spawn a seed are separated by at least 500 ms of
\* accumulated deltaTime.
C3_SpawnRateLimited ==
    [][ (TickStep /\ trigger' = "spawn") =>
          (sinceSpawn = -1 \/ sinceSpawn + deltaTime' >= PinchCooldownMs) ]_vars

\* C4: a tick whose frame holds an open-palm hand and a hand with
\* pinchDist < 0.05 ends processInteraction with isPinching false and spawns
\* no seed, whatever pinchCooldown is.
C4_PalmSuppressesPinch ==
    [][ (TickStep /\ Processed'
          /\ (\E i \in 1..Len(FrameHands') : IsOpenPalm(FrameHands'[i]))
          /\ (\E i \in 1..Len(FrameHands') : PinchDist(FrameHands'[i]) < PinchThreshold))
        =>  /\ ~interaction'.isPinching
            /\ trigger' # "spawn"
            /\ nextId' = nextId
            /\ Len(seeds') <= Len(seeds) ]_vars

\* palm and pinch in one frame, the pinching hand first, cooldown expired
C4_Witness ==
    /\ pc = "seeds"
    /\ landmarkFrame = <<Frame(<<>>, <<"pinchMid", "palm">>)>>
    /\ pinchCooldown <= 0
    /\ interaction.isPalmOpen /\ ~interaction.isPinching

C6_ClearTimerLaw ==
    [][ /\ interaction'.clearTimer > interaction.clearTimer
            =>  /\ TickStep /\ Processed' /\ interaction'.isPalmOpen
                /\ interaction'.clearTimer = interaction.clearTimer + deltaTime'
        /\ (TickStep /\ Processed' /\ ~interaction'.isPalmOpen)
            =>  /\ interaction'.clearTimer
                    = Max(0, interaction.clearTimer - 2 * deltaTime')
                /\ release'.from > 0
                    => interaction'.clearTimer
                          = Max(0, release'.from - 2 * release'.ms) ]_vars

\* a timer built up to 100 ms by a hold is back at 0 after 50 ms of release
C6_Witness ==
    /\ pc = "seeds"
    /\ release = [from |-> 100, ms |-> 50]
    /\ interaction.clearTimer = 0

NewParticles == SubSeq(particles', Len(particles) + 1, Len(particles'))

\* C7: when a clear-all fires, the seed and plant collections are empty
\* afterwards and the particle collection has grown by exactly 30 particles
\* per plant, 20 in the plant's colour followed by 10 green; seeds add none.
C7_ClearAllAtomic ==
    [][ (TickStep /\ trigger' = "clear") =>
          /\ seeds' = <<>>
          /\ plants' = <<>>
          /\ Len(particles') = Len(particles) + 30 * Len(plants)
          /\ SubSeq(particles', 1, Len(particles)) = particles
          /\ \A i \in 1..Len(plants), k \in 1..30 :
                /\ NewParticles[30 * (i - 1) + k].life = ParticleLife
                /\ NewParticles[30 * (i - 1) + k].color
                      = IF k <= 20 THEN plants[i].color ELSE StemColor ]_vars

\* a clear-all that found one plant (the grown one) and one seed in flight
C7_Witness ==
    /\ pc = "seeds" /\ trigger = "clear"
    /\ ticks = 2 /\ nextId = 3
    /\ Len(particles) = 30
    /\ seeds = <<>> /\ plants = <<>>

C9_GrowthScalesWithDeltaTime ==
    [][ (pc = "plants" /\ pc' = "idle" /\ interaction.mouthOpenness # NaN
            /\ interaction.mouthOpenness > MouthThreshold)
        => \A i \in 1..Len(plants) :
              plants'[i].growthProgress
                = Min(ProgressOne,
                      plants[i].growthProgress
                        + interaction.mouthOpenness * GrowthSpeed * deltaTime) ]_vars

FirstPinch(hands) ==
    hands[CHOOSE i \in 1..Len(hands) :
            /\ PinchDist(hands[i]) < PinchThreshold
            /\ \A k \in 1..(i - 1) : PinchDist(hands[k]) >= PinchThreshold]

\* C10: a spawn-seed trigger appends one seed, not landed, at the index tip of
\* the pinching hand scaled by the canvas size: (nx*W, ny*H); the frame with
\* pinchDist 0.03 at (0.5,0.5) on 1280x720 spawns at (640,360).
C10_SeedSpawnsAtPinch ==
    [][ (TickStep /\ trigger' = "spawn") =>
          LET new == seeds'[Len(seeds')]
              tip == FirstPinch(FrameHands')[8]
          IN /\ Len(seeds') = Len(seeds) + 1
             /\ SubSeq(seeds', 1, Len(seeds)) = seeds
             /\ new.x = tip.x * CanvasWidth
             /\ new.y = tip.y * CanvasHeight
             /\ ~new.isLanded
             /\ landmarkFrame'[1].hands = <<"pinchMid">>
                   => new.x = 640 * Milli /\ new.y = 360 * Milli ]_vars

\* the scenario: one hand pinching at (0.5,0.5) spawned a seed at (640,360)
C10_Witness ==
    /\ pc = "seeds" /\ trigger = "spawn"
    /\ landmarkFrame = <<Frame(<<>>, <<"pinchMid">>)>>
    /\ seeds[Len(seeds)].x = 640000 /\ seeds[Len(seeds)].y = 360000
    /\ ~seeds[Len(seeds)].isLanded

\* C11: every invocation of predictWebcam, one that returns early included,
\* leaves exactly one next-frame callback scheduled (and requestRef naming
\* it), and while a callback is scheduled a further invocation follows
\* unless the cleanup has run (counted up to MaxTicks invocations).
C11_LoopSelfSustaining ==
    /\ [][ ticks' > ticks => (rafPending' = 1 /\ requestRef' = "pending") ]_vars
    /\ \A n \in 0..(MaxTicks - 1) :
          (rafPending > 0 /\ ticks = n) ~> (ticks > n \/ cleanedUp)

\* two invocations in a row returned early for want of the video element,
\* and a callback is scheduled again
C11_Witness ==
    /\ pc = "idle" /\ ticks = 2
    /\ ~videoRef
    /\ lastVideoTime = -1
    /\ rafPending = 1 /\ requestRef = "pending"

\* the seed, particle and plant steps of the running tick, in this order
StepsRun ==
    /\ pc = "seeds" =>
          /\ pc' = "particles"
          /\ \E hDraw \in HeightDraws \cup {0}, sDraw \in SeedDraws \cup {0} :
                /\ seeds' = updateSeeds(seeds, plants, CanvasHeight, hDraw, sDraw).seeds
                /\ plants' = updateSeeds(seeds, plants, CanvasHeight, hDraw, sDraw).plants
    /\ pc = "particles" =>
          /\ pc' = "plants"
          /\ particles' = updateParticles(particles)
    /\ pc = "plants" =>
          /\ pc' = "idle"
          /\ plants' = updatePlants(plants, interaction.mouthOpenness, deltaTime)

\* C12: a tick whose detection throws leaves InteractionState and
\* pinchCooldown as they were, fires no trigger and changes no collection in
\* its vision block; its seed, particle and plant steps run, and one
\* next-frame callback is scheduled.
C12_DetectionFailureAbsorbed ==
    [][ /\ (TickStep /\ detection' = "error") =>
              /\ interaction' = interaction
              /\ pinchCooldown' = pinchCooldown
              /\ trigger' = "none"
              /\ seeds' = seeds /\ plants' = plants /\ particles' = particles
              /\ nextId' = nextId
              /\ rafPending' = 1
        /\ detection = "error" => StepsRun ]_vars

\* a failed tick after a spawning tick: the cooldown still stands at 450 and
\* the seed has fallen a second time
C12_Witness ==
    /\ pc = "plants" /\ detection = "error"
    /\ pinchCooldown = 450
    /\ Len(seeds) = 1 /\ seeds[1].y = 370500

\* C13: once the cleanup has run no predictWebcam invocation executes, no
\* loop is started, no callback stays scheduled and no camera stream has
\* running tracks, whatever the start-up was suspended at.
C13_TeardownStopsEverything ==
    [][ cleanedUp' =>
          /\ ticks' = ticks
          /\ pc' # "invoke"
          /\ rafPending' = 0
          /\ stream' # "live" ]_vars

\* C14: a processed tick whose frame has no face and no hand ends
\* processInteraction with mouthOpenness 0, isPinching false, pinchProximity
\* 0 and isPalmOpen false; it spawns no seed, fires no clear-all, and
\* clearTimer becomes max(0, clearTimer - 2*deltaTime).
C14_EmptyFrameZeroState ==
    [][ (TickStep /\ detection' = "ok" /\ landmarkFrame' = <<Frame(<<>>, <<>>)>>) =>
          /\ interaction'.mouthOpenness = 0
          /\ ~interaction'.isPinching
          /\ interaction'.pinchProximity = 0
          /\ ~interaction'.isPalmOpen
          /\ interaction'.pinchLocation = interaction.pinchLocation
          /\ trigger' = "none"
          /\ seeds' = seeds /\ plants' = plants /\ particles' = particles
          /\ interaction'.clearTimer <= interaction.clearTimer
          /\ interaction'.clearTimer
                = Max(0, interaction.clearTimer - 2 * deltaTime') ]_vars

\* an empty frame after a frame with an open mouth and an open palm:
\* mouthOpenness is back at 0 and the timer of 50 has drained
C14_Witness ==
    /\ pc = "seeds" /\ detection = "ok"
    /\ landmarkFrame = <<Frame(<<>>, <<>>)>>
    /\ release.from = 50
    /\ interaction.mouthOpenness = 0 /\ interaction.clearTimer = 0
    /\ ~interaction.isPalmOpen /\ ~interaction.isPinching

\* the colours of the palette
Palette ==
    [sp \in SpeciesSet |->
        CASE sp = "Rose" -> "#e11d48"
          [] sp = "Tulip" -> "#a855f7"
          [] sp = "WildChrysanthemum" -> "#facc15"
          [] sp = "Sunflower" -> "#f59e0b"
          [] sp = "Dandelion" -> "#cbd5e1"]

\* C15: after a configuration change whose new selectedSpecies is a concrete
\* species S, every seed and every plant has species S and the palette
\* colour of S; the collections hold the same entities in the same order and
\* every other field of every seed and plant is as before.
C15_RetargetOverwritesSpeciesOnly ==
    [][ (config' # config /\ config'.selectedSpecies # "Random") =>
          LET S == config'.selectedSpecies
          IN /\ Len(seeds') = Len(seeds)
             /\ Len(plants') = Len(plants)
             /\ \A i \in 1..Len(seeds) :
                   seeds'[i] = [seeds[i] EXCEPT !.species = S, !.color = Palette[S]]
             /\ \A i \in 1..Len(plants) :
                   plants'[i] = [plants[i] EXCEPT !.species = S, !.color = Palette[S]]
             /\ particles' = particles ]_vars

\* the grown rose is a tulip, purple, and otherwise the plant it was
C15_Witness ==
    /\ config.selectedSpecies = "Tulip"
    /\ Len(plants) = 1
    /\ plants[1] = [GrownPlant EXCEPT !.species = "Tulip", !.color = "#a855f7"]

\* C16: in every tick a positive pinchCooldown is decremented by deltaTime;
\* a spawn-seed trigger fires only in a tick that ends with isPinching and
\* found pinchCooldown <= 0, and it sets pinchCooldown to 500 (which the
\* tick's own decrement then applies to).
C16_CooldownRunsEveryTick ==
    [][ TickStep =>
          LET fired == trigger' = "spawn"
              base == IF fired THEN PinchCooldownMs ELSE pinchCooldown
          IN /\ fired => (interaction'.isPinching /\ pinchCooldown <= 0)
             /\ base > 0 => pinchCooldown' = base - deltaTime' ]_vars

\* C17: when two hands pinch in one tick and no hand is an open palm,
\* processInteraction ends with pinchLocation at the index tip of the first
\* pinching hand of the list, scaled by (width, height), and a seed spawned
\* in that tick lies at that location.
C17_FirstPinchingHandWins ==
    [][ (TickStep /\ detection' = "ok"
          /\ ~(\E i \in 1..Len(FrameHands') : IsOpenPalm(FrameHands'[i]))
          /\ Cardinality({i \in 1..Len(FrameHands') :
                             PinchDist(FrameHands'[i]) < PinchThreshold}) >= 2)
        =>  LET tip == FirstPinch(FrameHands')[8]
                first == LM(tip.x * CanvasWidth, tip.y * CanvasHeight)
            IN /\ interaction'.isPinching
               /\ interaction'.pinchLocation = <<first>>
               /\ trigger' = "spawn" =>
                     /\ seeds'[Len(seeds')].x = first.x
                     /\ seeds'[Len(seeds')].y = first.y ]_vars

\* C18: detection and processInteraction run in a tick only if the video
\* timestamp differs from the recorded one and the video is ready; a tick
\* whose timestamp is unchanged (or whose video is not ready) leaves
\* InteractionState (clearTimer included), pinchCooldown, the recorded
\* timestamp and the collections as they were and fires no trigger, and its
\* seed, particle and plant steps run: plants grow by the retained
\* mouthOpenness.
C18_StaleFrameSkipsDetection ==
    [][ /\ (TickStep /\ detection' \in {"ok", "error"}) =>
              /\ video'[1].currentTime # lastVideoTime
              /\ video'[1].readyState >= 2
        /\ (TickStep /\ (video'[1].currentTime = lastVideoTime
                            \/ video'[1].readyState < 2)) =>
              /\ detection' = "skipped"
              /\ interaction' = interaction
              /\ pinchCooldown' = pinchCooldown
              /\ lastVideoTime' = lastVideoTime
              /\ trigger' = "none"
              /\ seeds' = seeds /\ plants' = plants /\ particles' = particles
        /\ detection = "skipped" =>
              /\ StepsRun
              /\ (pc = "plants" /\ interaction.mouthOpenness > MouthThreshold) =>
                    \A i \in 1..Len(plants) :
                       plants'[i].growthProgress
                         = Min(ProgressOne, plants[i].growthProgress
                                 + interaction.mouthOpenness * GrowthSpeed) ]_vars

\* a tick with an unchanged timestamp after a tick that saw an open mouth
\* and spawned a seed: the cooldown still stands at 450, the seed has landed
\* in this tick's seed step and the plant is about to grow by the retained 0.2
C18_Witness ==
    /\ pc = "plants" /\ detection = "skipped"
    /\ ticks = 2
    /\ pinchCooldown = 450
    /\ interaction.mouthOpenness = 200
    /\ seeds = <<>> /\ Len(plants) = 1 /\ plants[1].growthProgress = 0

\* C19: a plant step with mouthOpenness <= 0.05 (0.05 and 0 included) leaves
\* the growthProgress of every plant, and the plant collection, as it was.
C19_GrowthFreezesAtThreshold ==
    [][ (pc = "plants" /\ pc' = "idle"
          /\ interaction.mouthOpenness # NaN
          /\ interaction.mouthOpenness <= MouthThreshold)
        =>  /\ Len(plants') = Len(plants)
            /\ \A i \in 1..Len(plants) :
                  plants'[i].growthProgress = plants[i].growthProgress
            /\ plants' = plants ]_vars

\* a tick with mouthOpenness exactly 0.05 has ended; the plant that sprouted
\* in it has not grown
C19_Witness ==
    /\ pc = "idle" /\ ticks = 2
    /\ interaction.mouthOpenness = MouthThreshold
    /\ Len(plants) = 1 /\ plants[1].growthProgress = 0

\* C20: a step in which no clear-all fires (a tick step, any config change)
\* keeps every plant in the plant collection, at its place in the list, with
\* its id, x, y, maxHeight and seed.
C20_PlantsOnlyDestroyedByClear ==
    [][ ~(TickStep /\ trigger' = "clear") =>
          /\ Len(plants') >= Len(plants)
          /\ \A i \in 1..Len(plants) :
                /\ plants'[i].id = plants[i].id
                /\ plants'[i].x = plants[i].x
                /\ plants'[i].y = plants[i].y
                /\ plants'[i].maxHeight = plants[i].maxHeight
                /\ plants'[i].seed = plants[i].seed ]_vars

\* after two ticks and a change to Tulip the grown plant is fully grown, a
\* tulip, and still the first plant, with a second one beside it
C20_Witness ==
    /\ pc = "idle" /\ ticks = 2
    /\ config.selectedSpecies = "Tulip"
    /\ Len(plants) = 2
    /\ plants[1] = [GrownPlant EXCEPT !.species = "Tulip", !.color = "#a855f7",
                                      !.growthProgress = ProgressOne]

\* particle steps a particle has been through, read off its life
ParticleAge(p) == (ParticleLife - p.life) \div ParticleFade
StepsToFade == ParticleLife \div ParticleFade
ParticleStep == pc = "particles" /\ pc' = "plants"

\* the particles of pp a particle step keeps, each one step older
RECURSIVE Faded(_, _)
Faded(pp, i) ==
    IF i > Len(pp) THEN <<>>
    ELSE (IF pp[i].life - ParticleFade > 0
          THEN <<[pp[i] EXCEPT !.life = @ - ParticleFade]>> ELSE <<>>)
         \o Faded(pp, i + 1)

\* C21: a particle is created with life 1.0; every particle step takes exactly
\* 0.02 off the life of every particle and keeps a particle only if its life
\* is then still > 0, and no other step changes a particle.  Hence a particle
\* found after a particle step has been through at most 49 of them (the 50th
\* removes it), and particles that have as many ticks left as they have life
\* to lose are all gone eventually unless another clear-all fires.
C21_ParticlesFadeOut ==
    /\ [][ /\ ParticleStep => particles' = Faded(particles, 1)
           /\ ~ParticleStep =>
                 /\ Len(particles') >= Len(particles)
                 /\ SubSeq(particles', 1, Len(particles)) = particles
                 /\ \A k \in (Len(particles) + 1)..Len(particles') :
                       particles'[k].life = ParticleLife ]_vars
    /\ [](\A k \in 1..Len(particles) :
             /\ particles[k].life > 0
             /\ particles[k].life <= ParticleLife
             /\ particles[k].life % ParticleFade = 0
             /\ pc \in {"plants", "idle"} =>
                   /\ ParticleAge(particles[k]) >= 1
                   /\ ParticleAge(particles[k]) < StepsToFade)
    /\ ((/\ particles # <<>>
         /\ \A k \in 1..Len(particles) :
               particles[k].life <= ParticleFade * (MaxTicks - ticks))
          ~> (particles = <<>> \/ trigger = "clear"))

\* the last tick explodes the plant: the old burst has had its 50th particle
\* step and is gone, the new burst has had its first
C21_Witness ==
    /\ pc = "plants"
    /\ ticks = MaxTicks
    /\ trigger = "clear"
    /\ Len(particles) = ParticleCount + StemParticleCount
    /\ \A k \in 1..Len(particles) : ParticleAge(particles[k]) = 1

\* the five tip/joint pairs: thumb, index, middle, ring, pinky
TipJointPairs == {<<4, 2>>, <<8, 5>>, <<12, 9>>, <<16, 13>>, <<20, 17>>}
WristDist2(landmarks, i) ==
    (landmarks[i].x - landmarks[0].x) * (landmarks[i].x - landmarks[0].x)
      + (landmarks[i].y - landmarks[0].y) * (landmarks[i].y - landmarks[0].y)
Extended(landmarks) ==
    {pr \in TipJointPairs : WristDist2(landmarks, pr[1]) > WristDist2(landmarks, pr[2])}
Qualifies(landmarks) == Extended(landmarks) = TipJointPairs

\* C22: in a processed tick isPalmOpen is set iff some hand of the frame has
\* all five tips strictly farther from the wrist (in x-y) than their joints;
\* a hand with a finger folded, or with a tip exactly as far as its joint,
\* does not count.  The clear timer accumulates deltaTime (or fires and is
\* reset) exactly in those ticks.
C22_OpenPalmNeedsFiveFingers ==
    [][(TickStep /\ Processed') =>
          LET hs == HandsOf(landmarkFrame'[1])
              any == \E i \in 1..Len(hs) : Qualifies(hs[i])
          IN /\ interaction'.isPalmOpen = any
             /\ any => interaction'.clearTimer \in {interaction.clearTimer + deltaTime', 0}
             /\ ~any => interaction'.clearTimer <= interaction.clearTimer]_vars

\* the second hand qualifies after a first one with only the thumb folded,
\* and the clear timer starts to accumulate
C22_Witness ==
    /\ pc = "seeds" /\ Processed
    /\ landmarkFrame[1].hands = <<"thumbIn", "fiveOut">>
    /\ interaction.isPalmOpen
    /\ interaction.clearTimer = deltaTime
    /\ deltaTime > 0

\* C23: while the configuration in effect names a concrete species, every
\* seed and every plant is of that species; and every seed and plant has, in
\* every state, the palette colour of its species.
C23_SpeciesFollowsConfig ==
    /\ config.selectedSpecies # "Random" =>
          \A i \in 1..Len(Entities) : Entities[i].species = config.selectedSpecies
    /\ \A i \in 1..Len(Entities) :
          /\ Entities[i].species \in SpeciesSet
          /\ Entities[i].color = Palette[Entities[i].species]

\* the rose of the grown garden has become a tulip, and a seed pinched since
\* is a tulip too
C23_Witness ==
    /\ config.selectedSpecies = "Tulip"
    /\ Len(plants) = 1 /\ plants[1].id = GrownPlant.id
    /\ plants[1].species = "Tulip" /\ plants[1].color = Palette["Tulip"]
    /\ Len(seeds) = 1
    /\ seeds[1].species = "Tulip" /\ seeds[1].color = Palette["Tulip"]

SeedIds(ss) == {ss[i].id : i \in 1..Len(ss)}
PinchingHands(hands) == {i \in 1..Len(hands) : IsPinch(hands[i])}

\* C24: no step adds more than one seed to the seed collection, however many
\* hands of the frame pinch: a seed is added only by a processed tick that
\* found pinchCooldown <= 0, the spawn sets pinchCooldown to 500 (less the
\* tick's own decrement when the tick ends), and the seeds that were there
\* stay in front of it.
C24_OneSeedPerTick ==
    [][ /\ Cardinality(SeedIds(seeds') \ SeedIds(seeds)) <= 1
        /\ Len(seeds') <= Len(seeds) + 1
        /\ SeedIds(seeds') \ SeedIds(seeds) # {} =>
              /\ TickStep /\ Processed'
              /\ pinchCooldown <= 0
              /\ pinchCooldown' = PinchCooldownMs - deltaTime'
              /\ PinchingHands(HandsOf(landmarkFrame'[1])) # {}
              /\ Len(seeds') = Len(seeds) + 1
              /\ SubSeq(seeds', 1, Len(seeds)) = seeds ]_vars

\* two hands pinch in the first tick: one seed, at the first hand
C24_Witness ==
    /\ pc = "seeds" /\ Processed
    /\ Cardinality(PinchingHands(FrameHands)) = Len(FrameHands)
    /\ Len(FrameHands) > 1
    /\ trigger = "spawn"
    /\ ticks = 1
    /\ Len(seeds) = 1
    /\ seeds[1].x = FrameHands[1][8].x * CanvasWidth
    /\ seeds[1].y = FrameHands[1][8].y * CanvasHeight

\* C25: the interaction flags are consistent whenever processInteraction has
\* returned (and so in every state): isPinching implies pinchProximity = 1
\* and a pinchLocation; isPalmOpen implies isPinching false and
\* pinchProximity = 0; isPalmOpen and isPinching are never both true.
C25_FlagsConsistent ==
    /\ interaction.isPinching =>
          /\ interaction.pinchProximity = Milli
          /\ interaction.pinchLocation # <<>>
    /\ interaction.isPalmOpen =>
          /\ ~interaction.isPinching
          /\ interaction.pinchProximity = 0
    /\ ~(interaction.isPalmOpen /\ interaction.isPinching)

\* an open palm whose thumb and index tips touch, after a tick that pinched
C25_Witness ==
    /\ pc = "seeds" /\ Processed
    /\ \E i \in 1..Len(FrameHands) : IsPinch(FrameHands[i]) /\ Qualifies(FrameHands[i])
    /\ interaction.isPalmOpen
    /\ ~interaction.isPinching
    /\ interaction.pinchProximity = 0
    /\ interaction.pinchLocation # <<>>
    /\ seeds # <<>>

\* C26: with deltaTime >= 0, clearTimer is within [0, 5000] and pinchCooldown
\* is at most 500 when a tick ends (and at every step of the tick after
\* processInteraction).
C26_TimersBounded ==
    /\ interaction.clearTimer >= 0
    /\ interaction.clearTimer <= ClearHoldMs
    /\ pinchCooldown <= PinchCooldownMs

\* a tick has ended with both timers at their upper bounds: the palm was
\* held to exactly 5000 ms, then a hand pinched in a tick of deltaTime 0
C26_Witness ==
    /\ pc = "idle" /\ ticks > 0
    /\ interaction.clearTimer = ClearHoldMs
    /\ pinchCooldown = PinchCooldownMs

LandingLine == (CanvasHeight - GroundMargin) * Milli
SeedStep == pc = "seeds" /\ pc' = "particles"
InFlight(id) == \E i \in 1..Len(seeds) : seeds[i].id = id
\* seed steps still to come within the ticks that are counted
StepsLeft == (MaxTicks - ticks) + (IF pc = "seeds" THEN 1 ELSE 0)

\* seed steps after which a seed at height y with speed vy has landed
RECURSIVE StepsToLand(_, _, _)
StepsToLand(y, vy, limit) ==
    IF limit = 0 THEN 1
    ELSE IF y + vy >= LandingLine THEN 1
    ELSE 1 + StepsToLand(y + vy, vy + SeedGravity, limit - 1)

\* C27: a seed starts with vy 5; a seed step moves every seed it keeps
\* strictly downwards and adds 0.5 to its vy, and no other step moves a seed;
\* after a seed step every seed left is not landed and above the landing line
\* (a seed pinched at or below the line is gone after the seed step of its own
\* tick); and a seed that can reach the landing line within the seed steps
\* that are still counted leaves the seed collection: it lands, unless a
\* clear-all takes it first.
C27_SeedsLand ==
    /\ [][ /\ \A i \in 1..Len(seeds), j \in 1..Len(seeds') :
                 seeds[i].id = seeds'[j].id =>
                    IF SeedStep
                    THEN /\ seeds'[j].y > seeds[i].y
                         /\ seeds'[j].y = seeds[i].y + seeds[i].vy
                         /\ seeds'[j].vy = seeds[i].vy + SeedGravity
                    ELSE /\ seeds'[j].y = seeds[i].y
                         /\ seeds'[j].vy = seeds[i].vy
           /\ \A j \in 1..Len(seeds') :
                 ~(\E i \in 1..Len(seeds) : seeds[i].id = seeds'[j].id) =>
                    /\ ~SeedStep
                    /\ seeds'[j].vy = SeedFallSpeed
                    /\ ~seeds'[j].isLanded
           /\ \A i \in 1..Len(seeds) :
                 ~(\E j \in 1..Len(seeds') : seeds[i].id = seeds'[j].id) =>
                    \/ SeedStep /\ seeds[i].y + seeds[i].vy >= LandingLine
                                /\ \E k \in 1..Len(plants') :
                                      /\ plants'[k].id = seeds[i].id
                                      /\ plants'[k].y = LandingLine
                    \/ ~SeedStep /\ trigger' = "clear" /\ seeds' = <<>> ]_vars
    /\ [](pc # "seeds" =>
             \A i \in 1..Len(seeds) :
                /\ ~seeds[i].isLanded
                /\ seeds[i].y < LandingLine)
    /\ \A id \in 1..(MaxTicks + 1) :
          (\E i \in 1..Len(seeds) :
              /\ seeds[i].id = id
              /\ StepsToLand(seeds[i].y, seeds[i].vy, MaxTicks + 1) <= StepsLeft)
            ~> ~InFlight(id)

\* a hand pinches below the landing line while the first seed is in its last
\* step: after the seed step both seeds are plants on the line
C27_Witness ==
    /\ pc = "particles"
    /\ trigger = "spawn"
    /\ interaction.pinchLocation # <<>>
    /\ interaction.pinchLocation[1].y > LandingLine
    /\ seeds = <<>>
    /\ Len(plants) = 2
    /\ plants[1].id = FallingSeed.id /\ plants[1].y = LandingLine
    /\ plants[2].id = nextId - 1 /\ plants[2].y = LandingLine

TickOrder == {<<"idle", "seeds">>, <<"invoke", "seeds">>, <<"seeds", "particles">>,
              <<"particles", "plants">>, <<"plants", "idle">>}
TickEnd == pc = "plants" /\ pc' = "idle"
Unstepped(pp) == {i \in 1..Len(pp) : pp[i].life = ParticleLife}
SteppedOnce(pp) == {i \in 1..Len(pp) : pp[i].life = ParticleLife - ParticleFade}

\* C28: a tick runs interaction processing, the seed step, the particle step
\* and the plant step in this order.  A plant that the tick's seed step has
\* created has, when the tick ends, a growthProgress of one growth increment
\* (mouthOpenness * 0.0075) if mouthOpenness > 0.05 and of 0 otherwise; the
\* particles a clear-all of the tick has created have been through exactly
\* one particle step when the tick ends.
C28_StepsInOrder ==
    [][ /\ pc' # pc => <<pc, pc'>> \in TickOrder
        /\ SeedStep =>
              /\ sprouted' = {plants'[k].id : k \in (Len(plants) + 1)..Len(plants')}
              /\ \A k \in (Len(plants) + 1)..Len(plants') : plants'[k].growthProgress = 0
        /\ TickStep =>
              Cardinality(Unstepped(particles')) =
                 IF trigger' = "clear"
                 THEN (ParticleCount + StemParticleCount) * Len(plants) ELSE 0
        /\ ParticleStep =>
              /\ Cardinality(SteppedOnce(particles')) = Cardinality(Unstepped(particles))
              /\ Unstepped(particles') = {}
        /\ TickEnd =>
              /\ particles' = particles /\ Unstepped(particles) = {}
              /\ \A id \in sprouted :
                    \E k \in 1..Len(plants') :
                       /\ plants'[k].id = id
                       /\ plants'[k].growthProgress =
                             IF interaction.mouthOpenness # NaN
                                  /\ interaction.mouthOpenness > MouthThreshold
                             THEN interaction.mouthOpenness * GrowthSpeed
                             ELSE 0 ]_vars

\* the first tick exploded the grown plant, the second pinched below the
\* landing line with the mouth open: when it ends the seed is a plant one
\* growth increment old, and the burst is two particle steps old
C28_Witness ==
    /\ pc = "idle" /\ ticks = MaxTicks
    /\ seeds = <<>>
    /\ Len(plants) = 1
    /\ plants[1].id # GrownPlant.id
    /\ interaction.mouthOpenness > MouthThreshold
    /\ plants[1].growthProgress = interaction.mouthOpenness * GrowthSpeed
    /\ Len(particles) = ParticleCount + StemParticleCount
    /\ \A k \in 1..Len(particles) : ParticleAge(particles[k]) = MaxTicks

====
